---- MODULE Spec2Model ----
(***************************************************************************)
(* HiveHyde-Anti: the core engine (initialize / processRequest), the       *)
(* Session Vault (key acquisition and silent refresh), the Data Loom mouse *)
(* state and the API Sentinel request interceptor, as one state machine.   *)
(*                                                                         *)
(* The runtime is single-threaded JavaScript.  A call runs until it        *)
(* reaches an await whose promise is settled by an outside event (the      *)
(* fetch response, the asynchronous probes of gather); every chain of      *)
(* continuations that follows such an event without a further outside      *)
(* event is one action.  Suspended calls live in `pending`.                *)
(***************************************************************************)
EXTENDS Integers, Sequences, FiniteSets, Bags, TLC

\* ---------------------------------------------------------------- bounds
MaxPending == 2      \* calls suspended at an await at the same time
MaxPosts == 3        \* POSTs to /warden/init in one behaviour
MaxTicks == 1        \* clock steps
MaxClicks == 2       \* clicks counted by lastMousePosition.c
MaxMoves == 51       \* instants at which the pointer moves

\* ------------------------------------------------------ program constants
KEY_LIFESPAN_MS == 30 * 60 * 1000
REFRESH_BUFFER_MS == 2 * 60 * 1000
API_INIT_ENDPOINT == "/warden/init"

\* JavaScript null / undefined, kept apart from every string value.
Null == "null"
Undefined == "undefined"

\* The clock advances in steps that take a session fetched at the last
\* step exactly to the start of its refresh window.
ClockStep == KEY_LIFESPAN_MS - REFRESH_BUFFER_MS

\* ------------------------------------------------------------ the server
\* What /warden/init can answer.  net = "error": fetch itself rejects;
\* ok: response.ok; json = FALSE: response.json() rejects; code / data /
\* msg: the parsed envelope.
FirstSession == { [key |-> "k1", token |-> "t1"] }
GoodSessions == { [key |-> "k1", token |-> "t1"], [key |-> "k2", token |-> "t2"] }
NoData == [isNull |-> TRUE]
BadData == { NoData, [key |-> "k1", token |-> Undefined], [key |-> Undefined, token |-> "t1"] }
Responses ==
    { [net |-> "error", ok |-> FALSE, json |-> FALSE, code |-> 0, data |-> NoData] }
    \cup { [net |-> "ok", ok |-> FALSE, json |-> TRUE, code |-> 0, data |-> d] : d \in FirstSession }
    \cup { [net |-> "ok", ok |-> TRUE, json |-> FALSE, code |-> 0, data |-> NoData] }
    \cup { [net |-> "ok", ok |-> TRUE, json |-> TRUE, code |-> 1, data |-> d] : d \in FirstSession }
    \cup { [net |-> "ok", ok |-> TRUE, json |-> TRUE, code |-> 0, data |-> d] : d \in BadData \cup GoodSessions }

IsString(v) == v \notin {Null, Undefined}

\* ------------------------------------------------------------------ text
\* A JavaScript string is a sequence of one-character strings, so that
\* joining, slicing, sorting and escaping are computed, not assumed.
RECURSIVE ToDecimal(_)
ToDecimal(n) ==
    LET Digit(d) == << "0", "1", "2", "3", "4", "5", "6", "7", "8", "9" >>[d + 1]
    IN IF n < 0 THEN << "-" >> \o ToDecimal(0 - n)
       ELSE IF n < 10 THEN << Digit(n) >>
       ELSE ToDecimal(n \div 10) \o << Digit(n % 10) >>

RECURSIVE Join(_, _)
Join(parts, sep) ==
    IF parts = << >> THEN << >>
    ELSE IF Len(parts) = 1 THEN parts[1]
    ELSE parts[1] \o sep \o Join(Tail(parts), sep)

\* UTF-16 code units of the characters the model uses.
CharCodes ==
    [ c \in { " ", "#", "&", "/", ":", "=", "?" } |->
        CASE c = " " -> 32 [] c = "#" -> 35 [] c = "&" -> 38 [] c = "/" -> 47
          [] c = ":" -> 58 [] c = "=" -> 61 [] c = "?" -> 63 ]
    @@ [ c \in { "0", "1", "2", "3", "4", "5", "6", "7", "8", "9" } |->
        CASE c = "0" -> 48 [] c = "1" -> 49 [] c = "2" -> 50 [] c = "3" -> 51
          [] c = "4" -> 52 [] c = "5" -> 53 [] c = "6" -> 54 [] c = "7" -> 55
          [] c = "8" -> 56 [] c = "9" -> 57 ]
    @@ [ c \in { "A", "B", "C", "D", "E", "G", "H", "L", "O", "P", "S", "T", "U" } |->
        CASE c = "A" -> 65 [] c = "B" -> 66 [] c = "C" -> 67 [] c = "D" -> 68
          [] c = "E" -> 69 [] c = "G" -> 71 [] c = "H" -> 72 [] c = "L" -> 76
          [] c = "O" -> 79 [] c = "P" -> 80 [] c = "S" -> 83 [] c = "T" -> 84
          [] c = "U" -> 85 ]
    @@ [ c \in { "a", "b", "c", "d", "e", "g", "h", "i", "l", "n", "o", "p",
                 "s", "t", "u", "v", "x" } |->
        CASE c = "a" -> 97 [] c = "b" -> 98 [] c = "c" -> 99 [] c = "d" -> 100
          [] c = "e" -> 101 [] c = "g" -> 103 [] c = "h" -> 104 [] c = "i" -> 105
          [] c = "l" -> 108 [] c = "n" -> 110 [] c = "o" -> 111 [] c = "p" -> 112
          [] c = "s" -> 115 [] c = "t" -> 116 [] c = "u" -> 117 [] c = "v" -> 118
          [] c = "x" -> 120 ]
CharCode(c) == CharCodes[c]
CharOf(n) == CHOOSE c \in DOMAIN CharCodes : CharCodes[c] = n

\* String.prototype.toUpperCase / toLowerCase on these characters.
UpperChar(c) == IF CharCode(c) >= 97 /\ CharCode(c) <= 122 THEN CharOf(CharCode(c) - 32) ELSE c
LowerChar(c) == IF CharCode(c) >= 65 /\ CharCode(c) <= 90 THEN CharOf(CharCode(c) + 32) ELSE c
ToUpperCase(str) == [ i \in 1..Len(str) |-> UpperChar(str[i]) ]
ToLowerCase(str) == [ i \in 1..Len(str) |-> LowerChar(str[i]) ]

StartsWith(str, prefix) ==
    Len(str) >= Len(prefix) /\ SubSeq(str, 1, Len(prefix)) = prefix
EndsWith(str, suffix) ==
    Len(str) >= Len(suffix) /\ SubSeq(str, Len(str) - Len(suffix) + 1, Len(str)) = suffix

\* The first index >= from of a character of chars in str, Len(str) + 1 if none.
RECURSIVE IndexOfAny(_, _, _)
IndexOfAny(str, chars, from) ==
    IF from > Len(str) THEN Len(str) + 1
    ELSE IF str[from] \in chars THEN from
    ELSE IndexOfAny(str, chars, from + 1)

\* -------------------------------------------------------- URL path (adapter)
HttpScheme == << "h", "t", "t", "p", ":", "/", "/" >>
HttpsScheme == << "h", "t", "t", "p", "s", ":", "/", "/" >>
DummyBase == HttpScheme \o << "d", "u", "m", "m", "y", "b", "a", "s", "e", ".", "c", "o", "m" >>

\* new URL(str).pathname for the URLs the model uses (no dot segments, no
\* characters that need escaping): the constructor throws unless str is an
\* absolute http(s) URL with a host; the pathname runs from the first "/"
\* after the host to the query or fragment, and is "/" when there is none.
UrlPathname(str) ==
    LET scheme == IF StartsWith(str, HttpsScheme) THEN HttpsScheme
                  ELSE IF StartsWith(str, HttpScheme) THEN HttpScheme ELSE << >>
        hostAt == Len(scheme) + 1
        hostEnd == IndexOfAny(str, { "/", "?", "#" }, hostAt)
        pathEnd == IndexOfAny(str, { "?", "#" }, hostEnd)
    IN IF scheme = << >> \/ hostEnd = hostAt
       THEN [threw |-> TRUE, pathname |-> << >>]
       ELSE [threw |-> FALSE,
             pathname |-> IF pathEnd = hostEnd THEN << "/" >>
                          ELSE SubSeq(str, hostEnd, pathEnd - 1)]

\* str.replace(/\/$/, '')
StripTrailingSlash(str) ==
    IF EndsWith(str, << "/" >>) THEN SubSeq(str, 1, Len(str) - 1) ELSE str

\* The realUrlPath computation of _requestInterceptor.
RealUrlPath(baseURL, requestURL) ==
    LET finalBase == IF EndsWith(baseURL, << "/" >>)
                     THEN SubSeq(baseURL, 1, Len(baseURL) - 1) ELSE baseURL
        finalRequest == IF StartsWith(requestURL, << "/" >>)
                        THEN requestURL ELSE << "/" >> \o requestURL
        plain == UrlPathname(DummyBase \o finalRequest)
        base == UrlPathname(finalBase)
    IN IF plain.threw THEN [threw |-> TRUE, path |-> << >>]
       ELSE IF finalBase = << >> THEN [threw |-> FALSE, path |-> plain.pathname]
       ELSE IF base.threw THEN [threw |-> TRUE, path |-> << >>]
       ELSE [threw |-> FALSE, path |-> StripTrailingSlash(base.pathname) \o finalRequest]

\* ------------------------------------------------- parameter serialization
\* A params object is the sequence of its own (key, value) pairs in
\* Object.keys order; a value is [num |-> n] or [str |-> s].  NoParams is
\* null / undefined.
NoParams == << << "no params" >> >>
EmptyParams == << >>

\* a < b in the code-unit order Array.prototype.sort uses.
RECURSIVE LexLess(_, _)
LexLess(a, b) ==
    IF b = << >> THEN FALSE
    ELSE IF a = << >> THEN TRUE
    ELSE IF CharCode(a[1]) # CharCode(b[1]) THEN CharCode(a[1]) < CharCode(b[1])
    ELSE LexLess(Tail(a), Tail(b))

\* Object.keys(params).sort(), as the pairs in sorted key order.
RECURSIVE SortByKey(_)
SortByKey(pairs) ==
    IF pairs = << >> THEN << >>
    ELSE LET least == CHOOSE i \in 1..Len(pairs) :
                          \A j \in 1..Len(pairs) :
                              j = i \/ LexLess(pairs[i][1], pairs[j][1])
                              \/ (pairs[i][1] = pairs[j][1] /\ i < j)
         IN << pairs[least] >>
            \o SortByKey([ k \in 1..(Len(pairs) - 1) |->
                              IF k < least THEN pairs[k] ELSE pairs[k + 1] ])

Unreserved ==
    { "0", "1", "2", "3", "4", "5", "6", "7", "8", "9",
      "A", "B", "C", "D", "E", "G", "H", "L", "O", "P", "S", "T", "U",
      "a", "b", "c", "d", "e", "g", "h", "i", "l", "n", "o", "p", "s", "t", "u", "v", "x" }
HexDigits == << "0", "1", "2", "3", "4", "5", "6", "7", "8", "9", "A", "B", "C", "D", "E", "F" >>
EncodeChar(c) ==
    IF c \in Unreserved THEN << c >>
    ELSE << "%", HexDigits[(CharCode(c) \div 16) + 1], HexDigits[(CharCode(c) % 16) + 1] >>
RECURSIVE encodeURIComponent(_)
encodeURIComponent(str) ==
    IF str = << >> THEN << >> ELSE EncodeChar(str[1]) \o encodeURIComponent(Tail(str))

\* String(value)
ValueToString(v) == IF "num" \in DOMAIN v THEN ToDecimal(v.num) ELSE v.str

_serializeGetParams(params) ==
    IF params = NoParams \/ params = EmptyParams THEN << >>
    ELSE LET sorted == SortByKey(params)
         IN Join([ i \in 1..Len(sorted) |->
                      encodeURIComponent(sorted[i][1]) \o << "=" >>
                      \o encodeURIComponent(ValueToString(sorted[i][2])) ],
                 << "&" >>)

\* JSON.stringify of a string, a number and a flat object (the strings of
\* the model hold nothing that JSON escapes).
Quoted(str) == << "\"" >> \o str \o << "\"" >>
JsonValue(v) == IF "num" \in DOMAIN v THEN ToDecimal(v.num) ELSE Quoted(v.str)
JsonStringify(pairs) ==
    << "{" >>
    \o Join([ i \in 1..Len(pairs) |-> Quoted(pairs[i][1]) \o << ":" >> \o JsonValue(pairs[i][2]) ],
            << "," >>)
    \o << "}" >>

\* _canonicalJsonStringify of a flat object: the keys sorted.  assessAndSign
\* does not call it.
_canonicalJsonStringify(pairs) == JsonStringify(SortByKey(pairs))

\* The serializedParams of assessAndSign, for the upper-cased method.
BodyMethods ==
    { << "P", "O", "S", "T" >>, << "P", "U", "T" >>, << "P", "A", "T", "C", "H" >>,
      << "D", "E", "L", "E", "T", "E" >> }
SerializedParams(httpMethod, params) ==
    IF httpMethod = << "G", "E", "T" >> THEN _serializeGetParams(params)
    ELSE IF httpMethod \in BodyMethods
    THEN IF params = NoParams \/ params = EmptyParams THEN << "{", "}" >>
         ELSE JsonStringify(params)
    ELSE << >>

\* ------------------------------------------------------- the environment
\* The host the page runs in: the capability flags _generateDynamicPolicy
\* reads, whether navigator.permissions exists (the only await of the
\* anomaly scan), navigator.maxTouchPoints, and what the probes find: the
\* platform, plugin and renderer strings and the results the audio
\* rendering can end with.
Desktop == [hasScreen |-> TRUE, hasNavigator |-> TRUE, hasCanvas |-> TRUE,
            hasOfflineAudioContext |-> TRUE, hasWebGL |-> TRUE, hasPerformance |-> TRUE,
            hasDeviceMotion |-> FALSE, isIOS |-> FALSE,
            hasPermissionsApi |-> TRUE, touchPoints |-> 0,
            platform |-> "MacIntel", plugins |-> "PDF Viewer", renderer |-> "ANGLE",
            audio |-> { "124.04" }]
IPhone == [hasScreen |-> TRUE, hasNavigator |-> TRUE, hasCanvas |-> TRUE,
           hasOfflineAudioContext |-> TRUE, hasWebGL |-> FALSE, hasPerformance |-> FALSE,
           hasDeviceMotion |-> TRUE, isIOS |-> TRUE,
           hasPermissionsApi |-> FALSE, touchPoints |-> 5,
           platform |-> "iPhone", plugins |-> "", renderer |-> "",
           audio |-> { "35.7" }]
Environments == { Desktop, IPhone }

VARIABLES
    env,                \* the host environment (fixed for a behaviour)
    now,                \* Date.now()
    isInitialized, currentPolicy, config, hiveConfig,     \* core engine
    sessionKey, sessionToken, expiresAt, isRefreshing,    \* session vault
    lastMousePosition, mouseTrajectory, listeners,        \* data loom
    isInterceptorAttached, axiosInstance, interceptors,   \* api sentinel
    pending,            \* the calls suspended at an await
    posts,              \* POSTs issued to /warden/init so far
    lastCall            \* the call or event of the last step and its outcome

vars == << env, now, isInitialized, currentPolicy, config, hiveConfig,
           sessionKey, sessionToken, expiresAt, isRefreshing,
           lastMousePosition, mouseTrajectory, listeners,
           isInterceptorAttached, axiosInstance, interceptors,
           pending, posts, lastCall >>

coreVars == << isInitialized, currentPolicy, config, hiveConfig >>
vaultVars == << sessionKey, sessionToken, expiresAt, isRefreshing >>
mouseVars == << lastMousePosition, mouseTrajectory, listeners >>
sentinelVars == << isInterceptorAttached, axiosInstance, interceptors >>

\* ------------------------------------------------------------- data loom
MOUSE_SAMPLE_MS == 100
MAX_TRAJECTORY == 50
MIN_ANALYSIS_POINTS == 10

\* A probe result is a record; a probe that returned a string s (a value or
\* a sentinel error) is [str |-> s].
Str(s) == [str |-> s]
IsStr(v) == "str" \in DOMAIN v

Abs(n) == IF n < 0 THEN 0 - n ELSE n
RECURSIVE Sum(_)
Sum(ns) == IF ns = << >> THEN 0 ELSE ns[1] + Sum(Tail(ns))

\* The slope loop of _analyzeMouseTrajectory from point i on: the number of
\* segments whose slope differs by less than 0.1 from the last slope seen.
\* A slope is [inf |-> TRUE] or the fraction dy / dx; NoSlope is null.
NoSlope == [none |-> TRUE]
SlopesClose(a, b) ==
    /\ a # NoSlope
    /\ ~a.inf /\ ~b.inf
    /\ 10 * Abs(b.dy * a.dx - a.dy * b.dx) < Abs(a.dx * b.dx)
RECURSIVE ConsistentSlopes(_, _, _)
ConsistentSlopes(trajectory, i, lastSlope) ==
    IF i > Len(trajectory) THEN 0
    ELSE LET dx == trajectory[i][1] - trajectory[i - 1][1]
             dy == trajectory[i][2] - trajectory[i - 1][2]
             slope == [inf |-> (dx = 0), dy |-> dy, dx |-> dx]
         IN IF dx = 0 /\ dy = 0 THEN ConsistentSlopes(trajectory, i + 1, lastSlope)
            ELSE (IF SlopesClose(lastSlope, slope) THEN 1 ELSE 0)
                 + ConsistentSlopes(trajectory, i + 1, slope)

\* _analyzeMouseTrajectory; regularity_score is kept in tenths.  The
\* standard deviation test is squared: sd < 10 iff sum (m x - S)^2 < 100 m^3
\* for the m intervals x with sum S.
_analyzeMouseTrajectory(trajectory) ==
    IF Len(trajectory) < MIN_ANALYSIS_POINTS
    THEN [regularity_score |-> 0, is_straight_line |-> FALSE]
    ELSE LET m == Len(trajectory) - 1
             intervals == [ i \in 1..m |-> trajectory[i + 1][3] - trajectory[i][3] ]
             total == Sum(intervals)
             spread == Sum([ i \in 1..m |-> (m * intervals[i] - total) * (m * intervals[i] - total) ])
             regular == spread < 100 * m * m * m
             straight == 10 * ConsistentSlopes(trajectory, 2, NoSlope) > 8 * m
             score == (IF regular THEN 8 ELSE 0) + (IF straight THEN 10 ELSE 0)
         IN [regularity_score |-> IF score < 10 THEN score ELSE 10,
             is_straight_line |-> straight]

\* ------------------------------------------------------------- risk matrix
fingerprintErrors ==
    { "err_canvas", "err_no_webgl", "err_webgl", "err_no_offline_context",
      "err_audio_render", "err_audio_context", "err_platform", "err_screen",
      "err_no_perf", "err_no_perf_api", "err_no_timing" }

Has(data, k) == k \in DOMAIN data
WeightOr(weights, k, default) ==
    IF k \in DOMAIN weights /\ weights[k] # 0 THEN weights[k] ELSE default

\* The fingerprint-error loop of _calculateRiskScore: the number of probe
\* results that are one of fingerprintErrors, and what it adds (in tenths).
ErrorCount(collectedData) ==
    Cardinality({ k \in DOMAIN collectedData :
                    IsStr(collectedData[k]) /\ collectedData[k].str \in fingerprintErrors })
ErrorPenalty(collectedData) ==
    IF ErrorCount(collectedData) > 2 THEN 20 * ErrorCount(collectedData) ELSE 0

\* Math.min(Math.round(Math.max(0, score)), 100) without the Math.max.
RoundClamp_NoFloor(score) ==
    LET rounded == (score + 5) \div 10
    IN IF rounded < 100 THEN rounded ELSE 100

\* Math.min(Math.round(Math.max(0, score)), 100) of a score in tenths.
RoundClamp(score) ==
    LET rounded == IF score < 0 THEN 0 ELSE (score + 5) \div 10
    IN IF rounded < 100 THEN rounded ELSE 100

\* _calculateRiskScore before the fingerprint-error loop.  The score is
\* summed in tenths, which is exact for the factors 1.2, 1.1, 0.7, 0.5 and
\* 0.1.
BehaviourScore(collectedData, weights) ==
    LET anomalyWeight == WeightOr(weights, "anomaly_scan", 50)
        hasAnomaly == Has(collectedData, "anomaly_scan")
        Flag(k) == hasAnomaly /\ k \in DOMAIN collectedData.anomaly_scan
                   /\ collectedData.anomaly_scan[k] = TRUE
        stack == hasAnomaly /\ collectedData.anomaly_scan.stack_anomaly # "false"
        anomaly ==
            (IF Flag("webdriver") THEN 10 * anomalyWeight ELSE 0)
            + (IF Flag("webdriver_tampered") THEN 12 * anomalyWeight ELSE 0)
            + (IF Flag("tostring_tampered") THEN 11 * anomalyWeight ELSE 0)
            + (IF stack THEN 7 * anomalyWeight ELSE 0)
            + (IF Flag("permissions_denied") THEN 50 ELSE 0)
        trajectoryData ==
            IF Has(collectedData, "mouse_trajectory") THEN collectedData.mouse_trajectory
            ELSE [points |-> << >>,
                  analysis |-> [regularity_score |-> 0, is_straight_line |-> FALSE]]
        trajectoryWeight == WeightOr(weights, "mouse_trajectory", 25)
        hasPlatform == Has(collectedData, "platform") /\ ~IsStr(collectedData.platform)
        isTouchDevice == hasPlatform /\ collectedData.platform.touchPoints > 0
        nPoints == Len(trajectoryData.points)
        movement == IF nPoints = 0 THEN 30 ELSE IF nPoints < 5 THEN 20 ELSE 0
        shape ==
            IF trajectoryData.analysis.is_straight_line
            THEN trajectoryWeight * (IF isTouchDevice THEN 1 ELSE 7)
            ELSE IF trajectoryData.analysis.regularity_score > 5
            THEN trajectoryWeight * 5 ELSE 0
        clickCount == IF hasPlatform THEN collectedData.platform.clickCount ELSE 0
        clicks == IF clickCount = 0 THEN 10
                  ELSE IF clickCount > 5 /\ nPoints > 20 THEN 0 - 50 ELSE 0
        perf == IF /\ Has(collectedData, "performance")
                   /\ ~IsStr(collectedData.performance)
                   /\ collectedData.performance.transferSize = 0
                   /\ collectedData.performance.type = "navigate"
                THEN 0 - 50 ELSE 0
    IN anomaly + movement + shape + clicks + perf

\* _calculateRiskScore, rounded as Math.round does and clamped.
_calculateRiskScore(collectedData, weights) ==
    RoundClamp(BehaviourScore(collectedData, weights) + ErrorPenalty(collectedData))

\* JSON.stringify({platform, renderer, audio}) of assessAndSign: a property
\* whose value is undefined is left out.  A value is one element of the
\* text (probe values are opaque); Undefined marks an undefined value.
FingerprintFields(collectedData) ==
    << << "platform",
          IF ~Has(collectedData, "platform") THEN "N/A"
          ELSE IF IsStr(collectedData.platform) THEN Undefined
          ELSE collectedData.platform.platform >>,
       << "renderer",
          IF ~Has(collectedData, "webgl") THEN "N/A"
          ELSE IF IsStr(collectedData.webgl) THEN Undefined
          ELSE collectedData.webgl.renderer >>,
       << "audio",
          IF ~Has(collectedData, "audio") THEN Undefined
          ELSE collectedData.audio.str >> >>

RawFingerprintJson(collectedData) ==
    LET fields == SelectSeq(FingerprintFields(collectedData), LAMBDA f : f[2] # Undefined)
    IN << "{" >>
       \o Join([ i \in 1..Len(fields) |->
                    << "\"", fields[i][1], "\"", ":", "\"", fields[i][2], "\"" >> ],
               << "," >>)
       \o << "}" >>

\* CryptoJS, kept symbolic: what was encrypted or signed, and with which
\* key material.  The IV is the first 32 hex characters of the key.
_aesEncrypt(plaintext, key) ==
    [cipher |-> "AES-256-CBC/Pkcs7/base64", key |-> key, iv |-> << key, 1, 32 >>,
     plaintext |-> plaintext]
HmacSHA256(data, key) == [mac |-> "HMAC-SHA256/hex", key |-> key, data |-> data]

\* assessAndSign with the score and the params exchanged in dataToSign.
SignaturePackage_ScoreBeforeParams(collectedData, weights, realUrl, params, method, key, token, timestamp, random) ==
    LET riskScore == _calculateRiskScore(collectedData, weights)
        nonce == ToDecimal(timestamp) \o << "-" >> \o random
        httpMethod == ToUpperCase(method)
        serializedParams == SerializedParams(httpMethod, params)
        rawFingerprintJson == RawFingerprintJson(collectedData)
        dataToSign == Join(<< ToDecimal(timestamp), nonce, httpMethod, realUrl,
                              ToDecimal(riskScore), serializedParams, rawFingerprintJson >>,
                           << "|", "|" >>)
    IN [signature |-> HmacSHA256(dataToSign, key),
        timestamp |-> timestamp,
        nonce |-> nonce,
        riskScore |-> riskScore,
        token |-> token,
        fingerprintJsonForSign |-> _aesEncrypt(rawFingerprintJson, key)]

\* The body of assessAndSign after the session key was obtained: the
\* signature package, from the data, the request, the clock and the random
\* part of the nonce.
SignaturePackage(collectedData, weights, realUrl, params, method, key, token, timestamp, random) ==
    LET riskScore == _calculateRiskScore(collectedData, weights)
        nonce == ToDecimal(timestamp) \o << "-" >> \o random
        httpMethod == ToUpperCase(method)
        serializedParams == SerializedParams(httpMethod, params)
        rawFingerprintJson == RawFingerprintJson(collectedData)
        dataToSign == Join(<< ToDecimal(timestamp), nonce, httpMethod, realUrl,
                              serializedParams, ToDecimal(riskScore), rawFingerprintJson >>,
                           << "|", "|" >>)
    IN [signature |-> HmacSHA256(dataToSign, key),
        timestamp |-> timestamp,
        nonce |-> nonce,
        riskScore |-> riskScore,
        token |-> token,
        fingerprintJsonForSign |-> _aesEncrypt(rawFingerprintJson, key)]

\* ------------------------------------------------------ policy scheduler
Weights(pairs) == [ k \in { p[1] : p \in pairs } |-> (CHOOSE p \in pairs : p[1] = k)[2] ]

\* The policy with the audio probe enabled on iOS too.
_generateDynamicPolicy_AudioOnIOS(capabilities) ==
    LET canvas == IF capabilities.hasCanvas THEN << "canvas" >> ELSE << >>
        webgl == IF capabilities.hasWebGL THEN << "webgl" >> ELSE << >>
        audio == IF capabilities.hasOfflineAudioContext THEN << "audio" >> ELSE << >>
        perf == IF capabilities.hasPerformance THEN << "performance" >> ELSE << >>
    IN [ collectors |-> << "platform", "screen", "language", "plugins" >>
                        \o canvas \o webgl \o audio \o perf
                        \o << "mouse_trajectory", "anomaly_scan" >>,
         weights |-> Weights(
            { << "plugins", 5 >>, << "mouse_trajectory", 25 >>, << "anomaly_scan", 50 >> }
            \cup (IF canvas # << >> THEN { << "canvas", 15 >> } ELSE {})
            \cup (IF webgl # << >> THEN { << "webgl", 15 >> } ELSE {})
            \cup (IF audio # << >> THEN { << "audio", 20 >> } ELSE {})
            \cup (IF perf # << >> THEN { << "performance", 5 >> } ELSE {})) ]

_generateDynamicPolicy(capabilities) ==
    LET canvas == IF capabilities.hasCanvas THEN << "canvas" >> ELSE << >>
        webgl == IF capabilities.hasWebGL THEN << "webgl" >> ELSE << >>
        audio == IF capabilities.hasOfflineAudioContext /\ ~capabilities.isIOS
                 THEN << "audio" >> ELSE << >>
        perf == IF capabilities.hasPerformance THEN << "performance" >> ELSE << >>
    IN [ collectors |-> << "platform", "screen", "language", "plugins" >>
                        \o canvas \o webgl \o audio \o perf
                        \o << "mouse_trajectory", "anomaly_scan" >>,
         weights |-> Weights(
            { << "plugins", 5 >>, << "mouse_trajectory", 25 >>, << "anomaly_scan", 50 >> }
            \cup (IF canvas # << >> THEN { << "canvas", 15 >> } ELSE {})
            \cup (IF webgl # << >> THEN { << "webgl", 15 >> } ELSE {})
            \cup (IF audio # << >> THEN { << "audio", 20 >> } ELSE {})
            \cup (IF perf # << >> THEN { << "performance", 5 >> } ELSE {})) ]

\* ---------------------------------------------------------- session vault
\* The strict validation of _fetchNewSession: the fetch resolved, the
\* status is 2xx, the body parsed, and the envelope has code 0 and a data
\* object whose key and token are strings.
ResponseAccepted(r) ==
    /\ r.net = "ok"
    /\ r.ok
    /\ r.json
    /\ ~(r.code # 0 \/ r.data = NoData \/ ~IsString(r.data.key) \/ ~IsString(r.data.token))

\* A try block that stores the new key and forgets the new token.
SessionAcquired_TokenKept(r, t) ==
    [key |-> r.data.key, token |-> sessionToken, expiresAt |-> t + KEY_LIFESPAN_MS]

\* The session after the try block of _fetchNewSession succeeded.
SessionAcquired(r, t) ==
    [key |-> r.data.key, token |-> r.data.token, expiresAt |-> t + KEY_LIFESPAN_MS]

\* A catch block that forgets to clear the key.
SessionCleared_KeyKept(old) ==
    [key |-> old.key, token |-> Null, expiresAt |-> 0]

\* The session after the catch block of _fetchNewSession.
SessionCleared(old) ==
    [key |-> Null, token |-> Null, expiresAt |-> 0]

CurrentSession == [key |-> sessionKey, token |-> sessionToken, expiresAt |-> expiresAt]

\* _fetchNewSession from the point where the fetch settles.
SessionAfterFetch(r, t) ==
    IF ResponseAccepted(r) THEN SessionAcquired(r, t) ELSE SessionCleared(CurrentSession)

\* The first check of _fetchNewSession: it throws before any I/O.
ConfigMissing == hiveConfig = Undefined \/ hiveConfig = ""

\* The guard without its isRefreshing test.
RefreshDue_NoLock ==
    ~(sessionKey = Null \/ now < expiresAt - REFRESH_BUFFER_MS)

\* The guard of _checkAndRefreshToken, negated: a refresh starts.
RefreshDue ==
    ~(sessionKey = Null \/ now < expiresAt - REFRESH_BUFFER_MS \/ isRefreshing)

\* The lock released after the try block only, not in a finally block.
LockAfterRefresh_TryOnly(accepted) == ~accepted

\* The finally block of _checkAndRefreshToken: isRefreshing once the refresh
\* has ended, whether the fetch was accepted or not.
LockAfterRefresh(accepted) == FALSE

\* ------------------------------------------------------------- the calls
NullPolicy == [isNull |-> TRUE]
NoPackage == [isNull |-> TRUE]
\* The suspended calls are a bag: two calls suspended at the same place with
\* the same arguments are two copies of one record.
Suspended == BagToSet(pending)
Suspend(c) == pending (+) SetToBag({ c })
Resume(c) == pending (-) SetToBag({ c })
CanSuspend == BagCardinality(pending) < MaxPending
CanPost == posts < MaxPosts

\* userConfig.apiBaseUrl as passed to HiveHyde.initialize; Undefined stands
\* for a missing config object or a non-string apiBaseUrl.
ApiBaseUrls == { Undefined, " ", "https://api.example" }
Trim(s) == IF s = " " THEN "" ELSE s
\* The validation of initialize without the trim of the string.
ConfigInvalid_NoTrim(apiBaseUrl) == ~IsString(apiBaseUrl) \/ apiBaseUrl = ""

ConfigInvalid(apiBaseUrl) == ~IsString(apiBaseUrl) \/ Trim(apiBaseUrl) = ""

\* What the last step was: the operation, how it ended for its caller
\* ("resolved", "rejected", "suspended" at an await, "none" for an event),
\* the error it threw, the value it resolved to, how the fetch it was
\* waiting for ended ("accepted", "failed", "none"), the probes the step
\* invoked, whether an interceptor call reached the engine, and the
\* signature package the engine returned.
Call(op, outcome, error, value) ==
    [op |-> op, outcome |-> outcome, error |-> error, value |-> value,
     fetch |-> "none", probes |-> << >>, engine |-> FALSE, package |-> NoPackage]
Settled(call, accepted) ==
    [call EXCEPT !.fetch = IF accepted THEN "accepted" ELSE "failed"]

\* A catch block that logs the error and does not rethrow it.
InitializeSettled_Swallowed(accepted) ==
    IF accepted
    THEN [isInitialized |-> TRUE, call |-> Call("initialize", "resolved", "", "true")]
    ELSE [isInitialized |-> FALSE, call |-> Call("initialize", "resolved", "", "false")]

\* The try / catch of HiveHyde.initialize around SessionVault.initialize():
\* the flag it leaves and what its caller gets.
InitializeSettled(accepted) ==
    IF accepted
    THEN [isInitialized |-> TRUE, call |-> Call("initialize", "resolved", "", "true")]
    ELSE [isInitialized |-> FALSE,
          call |-> Call("initialize", "rejected", "session_fetch_failed", Null)]

\* SessionVault.initialize returns the promise of _fetchNewSession as is.
VaultInitializeSettled(accepted) ==
    IF accepted
    THEN Call("vaultInitialize", "resolved", "", Null)
    ELSE Call("vaultInitialize", "rejected", "session_fetch_failed", Null)

\* getCurrentKey after _checkAndRefreshToken: the catch swallows the error
\* and the call returns sessionKey as it is then.
GetCurrentKeySettled(key) == Call("getCurrentKey", "resolved", "", key)

\* ----------------------------------------------------------- mouse state
\* The mousemove handler without the test of the buffer's length.
MouseMoveHandler_NoCap(m, x, y, t) ==
    IF t - m.last.t > MOUSE_SAMPLE_MS
    THEN [last |-> [x |-> x, y |-> y, t |-> t, c |-> m.last.c],
          trajectory |-> Append(m.trajectory, << x, y, t >>)]
    ELSE m

\* The mousemove handler of startListeners, run once.
MouseMoveHandler(m, x, y, t) ==
    IF t - m.last.t > MOUSE_SAMPLE_MS
    THEN [last |-> [x |-> x, y |-> y, t |-> t, c |-> m.last.c],
          trajectory |-> IF Len(m.trajectory) < MAX_TRAJECTORY
                         THEN Append(m.trajectory, << x, y, t >>)
                         ELSE m.trajectory]
    ELSE m

\* The click handler of startListeners, run once.
ClickHandler(m) == [m EXCEPT !.last.c = @ + 1]

\* An event is dispatched to each of the n registered copies of its handler.
RECURSIVE MouseMoveDispatched(_, _, _, _, _)
MouseMoveDispatched(m, x, y, t, n) ==
    IF n = 0 THEN m ELSE MouseMoveDispatched(MouseMoveHandler(m, x, y, t), x, y, t, n - 1)
RECURSIVE ClickDispatched(_, _)
ClickDispatched(m, n) == IF n = 0 THEN m ELSE ClickDispatched(ClickHandler(m), n - 1)

Mouse == [last |-> lastMousePosition, trajectory |-> mouseTrajectory]

\* ----------------------------------------------------------------- gather
collectorMap ==
    { "canvas", "webgl", "audio", "platform", "screen", "performance",
      "mouse_trajectory", "anomaly_scan" }

\* The probes gather invokes for a collector list, in order.
ProbesOf(collectors) == SelectSeq(collectors, LAMBDA k : k \in collectorMap)
ProbeSet(collectors) == { collectors[i] : i \in 1..Len(collectors) } \cap collectorMap

\* What a probe returns at the moment gather invokes it.  The audio probe
\* and the permissions part of the anomaly scan end later; their fields are
\* completed when gather settles.
ProbeResult(k) ==
    CASE k = "canvas" -> Str("data:image/png;base64")
      [] k = "webgl" -> IF env.hasWebGL
                        THEN [vendor |-> "vendor", renderer |-> env.renderer]
                        ELSE Str("err_no_webgl")
      [] k = "audio" -> Str(Undefined)
      [] k = "platform" -> [platform |-> env.platform, plugins |-> env.plugins,
                            touchPoints |-> env.touchPoints,
                            clickCount |-> lastMousePosition.c]
      [] k = "screen" -> [screen |-> "1920x1080x24", language |-> "en-US"]
      [] k = "performance" -> IF env.hasPerformance
                              THEN [type |-> "navigate", transferSize |-> 0, loadTime |-> 350]
                              ELSE Str("err_no_perf_api")
      [] k = "mouse_trajectory" -> [points |-> mouseTrajectory,
                                    analysis |-> _analyzeMouseTrajectory(mouseTrajectory)]
      [] k = "anomaly_scan" -> [webdriver |-> FALSE, webdriver_tampered |-> FALSE,
                                headless_chrome |-> FALSE, tostring_tampered |-> FALSE,
                                stack_anomaly |-> "false", permissions_denied |-> FALSE]

GatherStarted(collectors) == [ k \in ProbeSet(collectors) |-> ProbeResult(k) ]

\* gather going on without waiting for its promises.
GatherSuspends_Never(collectors) == FALSE

\* gather has to wait for an outside event: the audio rendering or the
\* permissions query.
GatherSuspends(collectors) ==
    \/ "audio" \in ProbeSet(collectors)
    \/ ("anomaly_scan" \in ProbeSet(collectors) /\ env.hasPermissionsApi)

\* The results once every promise of gather has resolved.
GatherResolved(data, audio) ==
    IF "audio" \in DOMAIN data THEN [data EXCEPT !["audio"] = Str(audio)] ELSE data

\* _getMouseTrajectory without the statement that empties the buffer.
TrajectoryAfterGather_Kept(collectors) == mouseTrajectory

\* _getMouseTrajectory empties the buffer it has just copied.
TrajectoryAfterGather(collectors) ==
    IF "mouse_trajectory" \in ProbeSet(collectors) THEN << >> ELSE mouseTrajectory

\* ------------------------------------------------------------ the requests
NoMethod == << Undefined >>
GET == << "g", "e", "t" >>
POST == << "p", "o", "s", "t" >>
Randoms == { << "k", "3", "f", "9", "z", "0", "q", "7" >> }

HeaderNames ==
    { "X-Hive-Timestamp", "X-Hive-Nonce", "X-Hive-Signature", "X-Hive-Token",
      "X-Hive-RiskScore", "X-Hive-Fingerprint-Json" }

\* The header assignments with the token header left out.
InjectedHeaders_NoToken(signaturePackage) ==
    [ h \in HeaderNames \ { "X-Hive-Token" } |->
        CASE h = "X-Hive-Timestamp" -> [header |-> signaturePackage.timestamp]
          [] h = "X-Hive-Nonce" -> [header |-> signaturePackage.nonce]
          [] h = "X-Hive-Signature" -> [header |-> signaturePackage.signature]
          [] h = "X-Hive-RiskScore" -> [header |-> signaturePackage.riskScore]
          [] h = "X-Hive-Fingerprint-Json" -> [header |-> signaturePackage.fingerprintJsonForSign] ]

\* The header assignments of _requestInterceptor.
InjectedHeaders(signaturePackage) ==
    [ h \in HeaderNames |->
        CASE h = "X-Hive-Timestamp" -> [header |-> signaturePackage.timestamp]
          [] h = "X-Hive-Nonce" -> [header |-> signaturePackage.nonce]
          [] h = "X-Hive-Signature" -> [header |-> signaturePackage.signature]
          [] h = "X-Hive-Token" -> [header |-> signaturePackage.token]
          [] h = "X-Hive-RiskScore" -> [header |-> signaturePackage.riskScore]
          [] h = "X-Hive-Fingerprint-Json" -> [header |-> signaturePackage.fingerprintJsonForSign] ]

\* Request configs handed to the interceptor by the HTTP client.
RequestConfig(protect, method, baseURL, url, params, data) ==
    [protect |-> protect, method |-> method, baseURL |-> baseURL, url |-> url,
     params |-> params, data |-> data, headers |-> << >>, cancelToken |-> FALSE]
PingUrl == << "a", "p", "i", "/", "p", "i", "n", "g", "?", "v", "=", "1" >>
ApiBase == HttpsScheme \o << "h", "o", "s", "t", "/", "v", "1", "/" >>
SomeParams == << << << "b" >>, [num |-> 2] >>, << << "a" >>, [num |-> 1] >> >>
RequestConfigs ==
    { RequestConfig(FALSE, GET, << >>, PingUrl, EmptyParams, NoParams),
      RequestConfig(TRUE, NoMethod, ApiBase, PingUrl, SomeParams, NoParams),
      RequestConfig(TRUE, POST, << "/", "v", "1" >>, PingUrl, NoParams, SomeParams) }

\* Arguments of direct processRequest calls.
DirectCalls ==
    { [realUrl |-> << "/", "a" >>, params |-> EmptyParams, method |-> << "G", "E", "T" >>],
      [realUrl |-> << "/", "a" >>, params |-> SomeParams, method |-> NoMethod] }

\* `config.method || 'get'` and the choice of params of _requestInterceptor.
MethodOf(cfg) == IF cfg.method = NoMethod \/ cfg.method = << >> THEN GET ELSE cfg.method
ParamsOf(cfg) ==
    LET chosen == IF ToLowerCase(MethodOf(cfg)) = GET THEN cfg.params ELSE cfg.data
    IN IF chosen = NoParams THEN EmptyParams ELSE chosen

\* attachTo without its second check.
AlreadyAttached_Never == FALSE

\* The second check of attachTo.
AlreadyAttached == isInterceptorAttached

Positions == { << 10, 20 >> }

\* processRequest without its first statement.
NotInitializedThrow_Never == FALSE

\* The first statement of processRequest: it throws outside the try block.
NotInitializedThrow == ~isInitialized

\* The try block of processRequest from the session key on, and its catch:
\* the signature package, or the error package.
EngineResult(c, data, weights, key, token, t, random) ==
    IF key = Null
    THEN [error |-> "processing_failed", message |-> "no session key", package |-> NoPackage]
    ELSE IF c.method = NoMethod
    THEN [error |-> "processing_failed", message |-> "TypeError", package |-> NoPackage]
    ELSE [error |-> "", message |-> "",
          package |-> SignaturePackage(data, weights, c.realUrl, c.params, c.method,
                                       key, token, t, random)]
EngineThrew(message) ==
    [error |-> "processing_failed", message |-> message, package |-> NoPackage]

\* The catch block of _requestInterceptor: the config as it is rejected.
Cancelled(cfg) ==
    [cfg EXCEPT !.cancelToken = (axiosInstance = "axios")]

\* What the caller of processRequest, or the HTTP client behind the
\* interceptor, gets for an engine result.
Delivered(c, res, probes) ==
    [ (IF c.via = "direct"
       THEN Call("processRequest", "resolved", res.error, Null)
       ELSE IF res.error # ""
       THEN Call("request", "rejected", "signing_failed", Cancelled(c.cfg))
       ELSE Call("request", "resolved", "",
                 [c.cfg EXCEPT !.headers = InjectedHeaders(res.package) @@ c.cfg.headers]))
      EXCEPT !.probes = probes, !.engine = TRUE, !.package = res.package ]

\* processRequest threw before its try block.
NotInitialized(c) ==
    [ (IF c.via = "direct"
       THEN Call("processRequest", "rejected", "not_initialized", Null)
       ELSE Call("request", "rejected", "not_initialized", Cancelled(c.cfg)))
      EXCEPT !.engine = TRUE ]

Init ==
    /\ env \in Environments
    /\ now = 0
    /\ isInitialized = FALSE
    /\ currentPolicy = NullPolicy
    /\ config = ""
    /\ hiveConfig = Undefined
    /\ sessionKey = Null
    /\ sessionToken = Null
    /\ expiresAt = 0
    /\ isRefreshing = FALSE
    /\ lastMousePosition = [x |-> 0, y |-> 0, t |-> 0, c |-> 0]
    /\ mouseTrajectory = << >>
    /\ listeners = 0
    /\ isInterceptorAttached = FALSE
    /\ axiosInstance = Undefined
    /\ interceptors = [a \in { "axios", "created" } |-> 0]
    /\ pending = EmptyBag
    /\ posts = 0
    /\ lastCall = Call("none", "none", "", Null)

\* Date.now() moves on.
Tick(d) ==
    /\ now + d <= MaxTicks * ClockStep
    /\ now' = now + d
    /\ lastCall' = Call("event", "none", "", Null)
    /\ UNCHANGED << env, coreVars, vaultVars, mouseVars, sentinelVars, pending, posts >>

\* A mousemove event at (x, y).
MouseMove(x, y) ==
    LET m == MouseMoveDispatched(Mouse, x, y, now, listeners)
    IN /\ listeners > 0
       /\ lastMousePosition' = m.last
       /\ mouseTrajectory' = m.trajectory
       /\ lastCall' = Call("event", "none", "", Null)
       /\ UNCHANGED << env, now, coreVars, vaultVars, listeners, sentinelVars, pending, posts >>

\* A click event.
Click ==
    LET m == ClickDispatched(Mouse, listeners)
    IN /\ listeners > 0
       /\ m.last.c <= MaxClicks
       /\ lastMousePosition' = m.last
       /\ lastCall' = Call("event", "none", "", Null)
       /\ UNCHANGED << env, now, coreVars, vaultVars, mouseTrajectory, listeners,
                       sentinelVars, pending, posts >>

\* HiveHyde.initialize(userConfig), up to its first await or its return.
Initialize(apiBaseUrl) ==
    /\ UNCHANGED << env, now, vaultVars, mouseVars, sentinelVars >>
    /\ IF isInitialized
       THEN /\ lastCall' = Call("initialize", "resolved", "", "true")
            /\ UNCHANGED << coreVars, pending, posts >>
       ELSE IF ConfigInvalid(apiBaseUrl)
       THEN /\ lastCall' = Call("initialize", "rejected", "config_missing", Null)
            /\ UNCHANGED << coreVars, pending, posts >>
       ELSE /\ CanSuspend /\ CanPost
            /\ config' = apiBaseUrl
            /\ hiveConfig' = apiBaseUrl
            /\ currentPolicy' = _generateDynamicPolicy(env)
            /\ UNCHANGED isInitialized
            /\ pending' = Suspend([kind |-> "initialize", pc |-> "fetch"])
            /\ posts' = posts + 1
            /\ lastCall' = Call("initialize", "suspended", "", Null)

\* SessionVault.initialize() called directly, up to its await.
VaultInitialize ==
    /\ UNCHANGED << env, now, coreVars, vaultVars, mouseVars, sentinelVars >>
    /\ IF ConfigMissing
       THEN /\ lastCall' = Call("vaultInitialize", "rejected", "config_missing", Null)
            /\ UNCHANGED << pending, posts >>
       ELSE /\ CanSuspend /\ CanPost
            /\ pending' = Suspend([kind |-> "vaultInitialize", pc |-> "fetch"])
            /\ posts' = posts + 1
            /\ lastCall' = Call("vaultInitialize", "suspended", "", Null)

\* SessionVault.getCurrentKey() called directly, up to the await of the
\* refresh fetch or, with no refresh to start, to its return.
GetCurrentKey ==
    /\ UNCHANGED << env, now, coreVars, mouseVars, sentinelVars >>
    /\ IF ~RefreshDue
       THEN /\ lastCall' = GetCurrentKeySettled(sessionKey)
            /\ UNCHANGED << vaultVars, pending, posts >>
       ELSE IF ConfigMissing
       THEN /\ lastCall' = GetCurrentKeySettled(sessionKey)
            /\ isRefreshing' = LockAfterRefresh(FALSE)
            /\ UNCHANGED << sessionKey, sessionToken, expiresAt, pending, posts >>
       ELSE /\ CanSuspend /\ CanPost
            /\ isRefreshing' = TRUE
            /\ pending' = Suspend([kind |-> "getCurrentKey", pc |-> "refresh"])
            /\ posts' = posts + 1
            /\ lastCall' = Call("getCurrentKey", "suspended", "", Null)
            /\ UNCHANGED << sessionKey, sessionToken, expiresAt >>

\* assessAndSign for the call c, whose gather has resolved with data: it
\* asks the vault for the key and either signs at once or waits for the
\* refresh fetch it has started.  resumed tells whether c was suspended in
\* gather; probes are the probes this step invoked.
AssessAndSign(c, data, resumed, probes) ==
    LET cleared == IF resumed THEN Resume(c) ELSE pending
    IN IF ~RefreshDue \/ ConfigMissing
       THEN /\ \E random \in Randoms :
                 lastCall' = Delivered(c, EngineResult(c, data, currentPolicy.weights,
                                 sessionKey, sessionToken, now, random), probes)
            /\ isRefreshing' = IF RefreshDue THEN LockAfterRefresh(FALSE) ELSE isRefreshing
            /\ pending' = cleared
            /\ UNCHANGED << sessionKey, sessionToken, expiresAt, posts >>
       ELSE /\ CanPost
            /\ ~resumed => CanSuspend
            /\ isRefreshing' = TRUE
            /\ pending' = cleared (+) SetToBag({ [c EXCEPT !.pc = "refresh", !.data = data] })
            /\ posts' = posts + 1
            /\ lastCall' = [Call(c.op, "suspended", "", Null) EXCEPT !.probes = probes,
                                                                     !.engine = TRUE]
            /\ UNCHANGED << sessionKey, sessionToken, expiresAt >>

\* processRequest(realUrl, params, method) for the call c, up to its first
\* await on an outside event or to its end.
ProcessRequest(c) ==
    /\ UNCHANGED << env, now, coreVars, lastMousePosition, listeners, sentinelVars >>
    /\ IF NotInitializedThrow
       THEN /\ lastCall' = NotInitialized(c)
            /\ UNCHANGED << vaultVars, mouseTrajectory, pending, posts >>
       ELSE IF currentPolicy = NullPolicy
       THEN /\ lastCall' = Delivered(c, EngineThrew("TypeError"), << >>)
            /\ UNCHANGED << vaultVars, mouseTrajectory, pending, posts >>
       ELSE LET collectors == currentPolicy.collectors
                data == GatherStarted(collectors)
                probes == ProbesOf(collectors)
            IN /\ mouseTrajectory' = TrajectoryAfterGather(collectors)
               /\ IF GatherSuspends(collectors)
                  THEN /\ CanSuspend
                       /\ pending' = Suspend([c EXCEPT !.pc = "gather", !.data = data])
                       /\ lastCall' = [Call(c.op, "suspended", "", Null)
                                          EXCEPT !.probes = probes, !.engine = TRUE]
                       /\ UNCHANGED << vaultVars, posts >>
                  ELSE AssessAndSign(c, GatherResolved(data, Undefined), FALSE, probes)

\* A pending call record for processRequest.
ProcessCall(via, cfg, realUrl, params, method) ==
    [kind |-> "processRequest", pc |-> "start", via |-> via,
     op |-> IF via = "direct" THEN "processRequest" ELSE "request",
     cfg |-> cfg, realUrl |-> realUrl, params |-> params, method |-> method,
     data |-> << >>]

\* HiveHyde.processRequest called by the page itself.
DirectProcessRequest(a) ==
    ProcessRequest(ProcessCall("direct", RequestConfig(TRUE, a.method, << >>, a.realUrl,
                                                       a.params, NoParams),
                               a.realUrl, a.params, a.method))

\* The HTTP client the interceptor is registered on sends a request: it
\* runs _requestInterceptor(cfg), up to its first await or to its end.
Request(a, cfg) ==
    /\ interceptors[a] > 0
    /\ IF ~cfg.protect
       THEN /\ lastCall' = Call("request", "resolved", "", cfg)
            /\ UNCHANGED << env, now, coreVars, vaultVars, mouseVars, sentinelVars,
                            pending, posts >>
       ELSE LET real == RealUrlPath(cfg.baseURL, cfg.url)
            IN IF real.threw
               THEN /\ lastCall' = Call("request", "rejected", "signing_failed", Cancelled(cfg))
                    /\ UNCHANGED << env, now, coreVars, vaultVars, mouseVars, sentinelVars,
                                    pending, posts >>
               ELSE ProcessRequest(ProcessCall("interceptor", cfg, real.path,
                                               ParamsOf(cfg), MethodOf(cfg)))

\* Every promise of a suspended gather has resolved; the audio rendering
\* ended with the result audio.
GatherSettles(c, audio) ==
    /\ c.pc = "gather"
    /\ audio \in env.audio
    /\ UNCHANGED << env, now, coreVars, mouseVars, sentinelVars >>
    /\ AssessAndSign(c, GatherResolved(c.data, audio), TRUE, << >>)

\* The fetch of a suspended call settles with response r; the call runs on
\* to its end.
FetchSettles(c, r) ==
    LET s == SessionAfterFetch(r, now)
        accepted == ResponseAccepted(r)
    IN /\ c.pc \in { "fetch", "refresh" }
       /\ sessionKey' = s.key
       /\ sessionToken' = s.token
       /\ expiresAt' = s.expiresAt
       /\ pending' = Resume(c)
       /\ UNCHANGED << env, now, posts, currentPolicy, config, hiveConfig,
                       lastMousePosition, mouseTrajectory, sentinelVars >>
       /\ CASE c.kind = "initialize" ->
                /\ isInitialized' = InitializeSettled(accepted).isInitialized
                /\ listeners' = IF accepted THEN listeners + 1 ELSE listeners
                /\ UNCHANGED isRefreshing
                /\ lastCall' = Settled(InitializeSettled(accepted).call, accepted)
            [] c.kind = "vaultInitialize" ->
                /\ UNCHANGED << isInitialized, isRefreshing, listeners >>
                /\ lastCall' = Settled(VaultInitializeSettled(accepted), accepted)
            [] c.kind = "getCurrentKey" ->
                /\ UNCHANGED << isInitialized, listeners >>
                /\ isRefreshing' = LockAfterRefresh(accepted)
                /\ lastCall' = Settled(GetCurrentKeySettled(s.key), accepted)
            [] c.kind = "processRequest" ->
                /\ UNCHANGED << isInitialized, listeners >>
                /\ isRefreshing' = LockAfterRefresh(accepted)
                /\ \E random \in Randoms :
                     lastCall' = Settled(Delivered(c, EngineResult(c, c.data,
                                     currentPolicy.weights, s.key, s.token, now, random),
                                     << >>), accepted)

\* ApiSentinel.attachTo(axiosInstance).  "null" is no instance, "object" an
\* object without interceptors, "axios" the default export (it has Cancel
\* and CancelToken), "created" an instance made by axios.create (it has not).
AttachTo(a) ==
    /\ UNCHANGED << env, now, coreVars, vaultVars, mouseVars, pending, posts >>
    /\ IF a \in { Null, "object" }
       THEN /\ lastCall' = Call("attachTo", "resolved", "invalid_instance", a)
            /\ UNCHANGED sentinelVars
       ELSE IF AlreadyAttached
       THEN /\ lastCall' = Call("attachTo", "resolved", "already_attached", a)
            /\ UNCHANGED sentinelVars
       ELSE /\ axiosInstance' = a
            /\ interceptors' = [interceptors EXCEPT ![a] = @ + 1]
            /\ isInterceptorAttached' = TRUE
            /\ lastCall' = Call("attachTo", "resolved", "", a)

Next ==
    \/ Tick(ClockStep)
    \/ \E xy \in Positions : MouseMove(xy[1], xy[2])
    \/ Click
    \/ \E u \in ApiBaseUrls : Initialize(u)
    \/ VaultInitialize
    \/ GetCurrentKey
    \/ \E a \in DirectCalls : DirectProcessRequest(a)
    \/ \E a \in DOMAIN interceptors, cfg \in RequestConfigs : Request(a, cfg)
    \/ \E c \in Suspended, audio \in { "124.04", "35.7" } : GatherSettles(c, audio)
    \/ \E c \in Suspended, r \in Responses : FetchSettles(c, r)
    \/ \E a \in { Null, "object", "axios", "created" } : AttachTo(a)

Spec == Init /\ [][Next]_vars

NextS ==
    \/ Tick(ClockStep)
    \/ \E u \in ApiBaseUrls : Initialize(u)
    \/ \E a \in DOMAIN interceptors, cfg \in RequestConfigs : Request(a, cfg)
    \/ \E c \in Suspended, audio \in { "124.04", "35.7" } : GatherSettles(c, audio)
    \/ \E c \in Suspended, r \in Responses : FetchSettles(c, r)
    \/ \E a \in { Null, "object", "axios", "created" } : AttachTo(a)
SpecS == Init /\ [][NextS]_vars
NextE ==
    \/ Tick(ClockStep)
    \/ \E xy \in Positions : MouseMove(xy[1], xy[2])
    \/ \E u \in ApiBaseUrls : Initialize(u)
    \/ \E a \in DirectCalls : DirectProcessRequest(a)
    \/ \E c \in Suspended, audio \in { "124.04", "35.7" } : GatherSettles(c, audio)
    \/ \E c \in Suspended, r \in Responses : FetchSettles(c, r)
SpecE == Init /\ [][NextE]_vars
NextV ==
    \/ Tick(ClockStep)
    \/ \E u \in ApiBaseUrls : Initialize(u)
    \/ VaultInitialize
    \/ GetCurrentKey
    \/ \E c \in Suspended, r \in Responses : FetchSettles(c, r)
SpecV == Init /\ [][NextV]_vars

\* ------------------------------------------------------ the pointer at work
\* The pointer moves at every instant the clock reaches: the clock moves on
\* by the sampling interval, or by one millisecond more, once the handler has
\* seen the instant.
MouseTick(d) ==
    /\ listeners > 0
    /\ lastMousePosition.t = now
    /\ now + d <= MaxMoves * (MOUSE_SAMPLE_MS + 1)
    /\ Tick(d)

\* HiveHyde.DataLoom.gather(collectors) called directly with collectors whose
\* probes are synchronous: the promise resolves without an outside event.
Gather(collectors) ==
    /\ ~GatherSuspends(collectors)
    /\ mouseTrajectory' = TrajectoryAfterGather(collectors)
    /\ lastCall' = [Call("gather", "resolved", "", GatherStarted(collectors))
                     EXCEPT !.probes = ProbesOf(collectors)]
    /\ UNCHANGED << env, now, coreVars, vaultVars, lastMousePosition, listeners,
                    sentinelVars, pending, posts >>

SyncCollectors ==
    { << "mouse_trajectory" >>, << "platform", "mouse_trajectory" >>, << "platform" >> }

\* The state in which HiveHyde.initialize has just succeeded, before the
\* clock moves: once, or twice for two calls whose fetches overlapped, each
\* of which called startListeners.
InitM ==
    /\ env \in Environments
    /\ now = 0
    /\ isInitialized = TRUE
    /\ currentPolicy = _generateDynamicPolicy(env)
    /\ config = "https://api.example"
    /\ hiveConfig = "https://api.example"
    /\ sessionKey = "k1"
    /\ sessionToken = "t1"
    /\ expiresAt = KEY_LIFESPAN_MS
    /\ isRefreshing = FALSE
    /\ lastMousePosition = [x |-> 0, y |-> 0, t |-> 0, c |-> 0]
    /\ mouseTrajectory = << >>
    /\ listeners \in { 1, 2 }
    /\ isInterceptorAttached = FALSE
    /\ axiosInstance = Undefined
    /\ interceptors = [a \in { "axios", "created" } |-> 0]
    /\ pending = EmptyBag
    /\ posts = listeners
    /\ lastCall = Settled(InitializeSettled(TRUE).call, TRUE)

NextM ==
    \/ \E d \in { MOUSE_SAMPLE_MS, MOUSE_SAMPLE_MS + 1 } : MouseTick(d)
    \/ \E xy \in Positions : MouseMove(xy[1], xy[2])
    \/ Click
    \/ \E collectors \in SyncCollectors : Gather(collectors)
SpecM == InitM /\ [][NextM]_vars

\* --------------------------------------------------- the listeners at work
NextL ==
    \/ Tick(ClockStep)
    \/ \E xy \in Positions : MouseMove(xy[1], xy[2])
    \/ Click
    \/ \E u \in ApiBaseUrls : Initialize(u)
    \/ \E c \in Suspended, r \in Responses : FetchSettles(c, r)
SpecL == Init /\ [][NextL]_vars

\* ------------------------------------------- the functions called directly
\* The sentinel strings the probes of the Data Loom return on failure.
Sentinels ==
    { "err_canvas", "err_no_webgl", "err_webgl", "err_no_offline_context",
      "err_audio_render", "err_audio_context", "err_platform", "err_screen",
      "err_no_perf_api", "err_no_timing", "err_perf" }

\* Arguments for the serialization: methods in either case, and params
\* objects with their keys in and out of order.
Methods ==
    { GET, << "G", "E", "T" >>, POST, << "P", "O", "S", "T" >>, << "p", "u", "t" >>,
      << "p", "a", "t", "c", "h" >>, << "d", "e", "l", "e", "t", "e" >>,
      << "h", "e", "a", "d" >> }
ParamSets ==
    { NoParams, EmptyParams, SomeParams,
      << << << "a" >>, [num |-> 1] >>, << << "b" >>, [num |-> 2] >> >>,
      << << << "x" >>, [str |-> << "a", " ", "b" >>] >> >>,
      << << << "b", "a" >>, [num |-> 10] >>, << << "b" >>, [str |-> << "v" >>] >>,
         << << "a", "b" >>, [num |-> 0] >> >> }

\* Results each probe can resolve to; Absent: the probe is not in the policy.
Absent == [absent |-> TRUE]
PlatformResults ==
    { Absent, Str("err_platform"),
      [platform |-> "MacIntel", plugins |-> "PDF Viewer", touchPoints |-> 0, clickCount |-> 0],
      [platform |-> "iPhone", plugins |-> "", touchPoints |-> 5, clickCount |-> 6] }
WebGLResults ==
    { Absent, Str("err_no_webgl"), Str("err_webgl"),
      [vendor |-> "vendor", renderer |-> "ANGLE"] }
AudioResults == { Absent, Str("124.04"), Str("err_no_offline_context"), Str("err_audio_render") }
PerformanceResults ==
    { Absent, Str("err_perf"), Str("err_no_perf_api"),
      [type |-> "navigate", transferSize |-> 0, loadTime |-> 350] }
CanvasResults == { Str("data:image/png;base64"), Str("err_canvas") }
ScreenResults == { [screen |-> "1920x1080x24", language |-> "en-US"], Str("err_screen") }
AnomalyResults ==
    { Absent,
      [webdriver |-> FALSE, webdriver_tampered |-> FALSE, headless_chrome |-> FALSE,
       tostring_tampered |-> FALSE, stack_anomaly |-> "false", permissions_denied |-> FALSE],
      [webdriver |-> TRUE, webdriver_tampered |-> TRUE, headless_chrome |-> TRUE,
       tostring_tampered |-> TRUE, stack_anomaly |-> "no_stack", permissions_denied |-> TRUE] }
TrajectoryResults ==
    { Absent,
      [points |-> << >>, analysis |-> _analyzeMouseTrajectory(<< >>)],
      [points |-> [ i \in 1..3 |-> << i, 2 * i, 150 * i >> ],
       analysis |-> _analyzeMouseTrajectory([ i \in 1..3 |-> << i, 2 * i, 150 * i >> ])],
      [points |-> [ i \in 1..25 |-> << i, 2 * i, 150 * i >> ],
       analysis |-> _analyzeMouseTrajectory([ i \in 1..25 |-> << i, 2 * i, 150 * i >> ])],
      [points |-> [ i \in 1..25 |-> << i, 5 * (i % 2), 150 * i + 60 * (i % 2) >> ],
       analysis |-> _analyzeMouseTrajectory([ i \in 1..25 |-> << i, 5 * (i % 2), 150 * i + 60 * (i % 2) >> ])] }

\* The object gather returns for one result per probe: the keys of the
\* probes that ran.
Collected(results) ==
    [ k \in { k \in DOMAIN results : results[k] # Absent } |-> results[k] ]
CollectedData ==
    { Collected([platform |-> pl, webgl |-> gl, audio |-> au, performance |-> pf,
                 canvas |-> cv, screen |-> sc, anomaly_scan |-> an, mouse_trajectory |-> tr]) :
        pl \in PlatformResults, gl \in WebGLResults, au \in AudioResults,
        pf \in PerformanceResults, cv \in CanvasResults, sc \in ScreenResults,
        an \in AnomalyResults, tr \in TrajectoryResults }
FingerprintData ==
    { Collected([platform |-> pl, webgl |-> gl, audio |-> au]) :
        pl \in PlatformResults, gl \in WebGLResults, au \in AudioResults }
WeightMaps ==
    { _generateDynamicPolicy(Desktop).weights, _generateDynamicPolicy(IPhone).weights,
      Weights({ << "anomaly_scan", 80 >>, << "mouse_trajectory", 0 >> }) }
Capabilities ==
    [hasScreen : BOOLEAN, hasNavigator : BOOLEAN, hasCanvas : BOOLEAN,
     hasOfflineAudioContext : BOOLEAN, hasWebGL : BOOLEAN, hasPerformance : BOOLEAN,
     hasDeviceMotion : BOOLEAN, isIOS : BOOLEAN]
Paths == { << "/", "a", "p", "i", "/", "p", "i", "n", "g" >>, << "/" >> }

\* A function of the modules is called with args and returns result; no
\* state of the program changes.
Returned(op, args, result) ==
    /\ lastCall' = Call(op, "resolved", "", [args |-> args, result |-> result])
    /\ UNCHANGED << env, now, coreVars, vaultVars, mouseVars, sentinelVars, pending, posts >>

\* Nothing has been called yet: each behaviour applies one function once.
Fresh == lastCall.op = "none"

\* The serializedParams branch of assessAndSign for a method and params.
SerializeParams ==
    /\ Fresh
    /\ \E method \in Methods, params \in ParamSets :
         Returned("serializedParams", [method |-> method, params |-> params],
                  SerializedParams(ToUpperCase(method), params))

\* The rawFingerprintJson of assessAndSign for collected data.
FingerprintJson ==
    /\ Fresh
    /\ \E collectedData \in FingerprintData :
         Returned("rawFingerprintJson", [collectedData |-> collectedData],
                  RawFingerprintJson(collectedData))

\* _calculateRiskScore(collectedData, weights).
CalculateRiskScore ==
    /\ Fresh
    /\ \E collectedData \in CollectedData, weights \in WeightMaps :
         Returned("_calculateRiskScore",
                  [collectedData |-> collectedData, weights |-> weights],
                  _calculateRiskScore(collectedData, weights))

\* _generateDynamicPolicy() in a host with the given capabilities.
GenerateDynamicPolicy ==
    /\ Fresh
    /\ \E capabilities \in Capabilities :
         Returned("_generateDynamicPolicy", [capabilities |-> capabilities],
                  _generateDynamicPolicy(capabilities))

\* assessAndSign from the session key on, at the clock value timestamp.
Sign ==
    /\ Fresh
    /\ \E collectedData \in FingerprintData, realUrl \in Paths, params \in ParamSets,
          method \in Methods, timestamp \in { 0, ClockStep }, random \in Randoms :
         LET weights == _generateDynamicPolicy(Desktop).weights
         IN Returned("assessAndSign",
                     [collectedData |-> collectedData, weights |-> weights,
                      realUrl |-> realUrl, params |-> params, method |-> method,
                      timestamp |-> timestamp, random |-> random],
                     SignaturePackage(collectedData, weights, realUrl, params, method,
                                      "k1", "t1", timestamp, random))

\* The base URLs of an HTTP client (none, or absolute with or without a path
\* and a trailing slash) and the URLs of its requests.
Host == HttpsScheme \o << "h", "o", "s", "t" >>
BaseUrls == { << >>, Host, Host \o << "/" >>, Host \o << "/", "v", "1" >>, ApiBase }
PingPath == << "a", "p", "i", "/", "p", "i", "n", "g" >>
RequestUrls ==
    { PingPath, << "/" >> \o PingPath, PingUrl, << "/" >> \o PingUrl,
      << "/" >> \o PingPath \o << "#", "t", "o", "p" >> }

\* The realUrlPath computation of _requestInterceptor for a request config.
RealUrl ==
    /\ Fresh
    /\ \E baseURL \in BaseUrls, url \in RequestUrls :
         Returned("realUrlPath", [baseURL |-> baseURL, url |-> url],
                  RealUrlPath(baseURL, url))

NextF ==
    \/ RealUrl
    \/ SerializeParams
    \/ FingerprintJson
    \/ CalculateRiskScore
    \/ GenerateDynamicPolicy
    \/ Sign
SpecF == Init /\ [][NextF]_vars

\* ------------------------------------------------------- shared vocabulary
\* A refresh fetch started by _checkAndRefreshToken is in flight.
RefreshCalls == { c \in Suspended : c.pc = "refresh" }
RefreshInFlight == RefreshCalls # {}
RECURSIVE Copies(_, _)
Copies(bag, records) ==
    IF records = {} THEN 0
    ELSE LET c == CHOOSE c \in records : TRUE
         IN bag[c] + Copies(bag, records \ { c })
RefreshFetches == Copies(pending, RefreshCalls)

\* This step settles the fetch of a refresh, with a failure.
RefreshFailsStep ==
    /\ \E c \in RefreshCalls : pending' = Resume(c)
    /\ lastCall'.fetch = "failed"

\* This step resumes no suspended call: it is a new call or an event.
NoCallResumed == \A c \in Suspended : BagIn(c, pending') /\ pending'[c] >= pending[c]

\* This step is a call of getCurrentKey (not the settling of an earlier one).
GetCurrentKeyCallStep == lastCall'.op = "getCurrentKey" /\ NoCallResumed

\* The X-Hive-* headers a request config carries.
HiveHeaders(cfg) == DOMAIN cfg.headers \cap HeaderNames

\* The six headers of cfg are the six fields of the one package p.
SignedWith(cfg, p) ==
    /\ HiveHeaders(cfg) = HeaderNames
    /\ cfg.headers["X-Hive-Timestamp"].header = p.timestamp
    /\ cfg.headers["X-Hive-Nonce"].header = p.nonce
    /\ cfg.headers["X-Hive-Signature"].header = p.signature
    /\ cfg.headers["X-Hive-Token"].header = p.token
    /\ cfg.headers["X-Hive-RiskScore"].header = p.riskScore
    /\ cfg.headers["X-Hive-Fingerprint-Json"].header = p.fingerprintJsonForSign

\* The interceptor has handed the request back to the HTTP client / has
\* rejected it.
LetThrough == lastCall.op = "request" /\ lastCall.outcome = "resolved"
Rejected == lastCall.op = "request" /\ lastCall.outcome = "rejected"

InRefreshWindow == sessionKey # Null /\ now >= expiresAt - REFRESH_BUFFER_MS

\* ------------------------------------------------------------------ claims

\* C1: when a silent refresh started by getCurrentKey fails, the vault's
\* key, token and expiresAt are unchanged, the call resolves to the key held
\* before, and the token stays non-null.
C1_FailedRefreshKeepsSession ==
    [][ (RefreshFailsStep /\ sessionKey # Null) =>
            /\ sessionKey' = sessionKey
            /\ sessionToken' = sessionToken
            /\ expiresAt' = expiresAt
            /\ lastCall'.outcome = "resolved"
            /\ lastCall'.value = sessionKey
            /\ sessionToken' # Null ]_vars

\* C2: at most one refresh fetch is in flight at any time, and a
\* getCurrentKey call made in the refresh window issues a POST exactly when
\* no refresh fetch is in flight, so the calls made before that fetch
\* settles cause one POST together.
C2_SingleRefreshFetch ==
    /\ [](RefreshFetches <= 1)
    /\ [][ (GetCurrentKeyCallStep /\ InRefreshWindow) =>
               posts' = posts + (IF RefreshInFlight THEN 0 ELSE 1) ]_vars

\* C2 witness: a getCurrentKey call returned at once, in the refresh window,
\* while the refresh fetch of an earlier call was still in flight.
C2_Witness ==
    /\ lastCall.op = "getCurrentKey" /\ lastCall.outcome = "resolved"
    /\ lastCall.fetch = "none"
    /\ InRefreshWindow /\ RefreshInFlight

\* C3: after a failed silent refresh, the next getCurrentKey call made with
\* the clock still past expiresAt - refreshBufferMs and no refresh in flight
\* starts a new refresh fetch.
C3_RetryAfterFailedRefresh ==
    [][ ( /\ lastCall.op = "getCurrentKey" /\ lastCall.fetch = "failed"
          /\ GetCurrentKeyCallStep
          /\ now >= expiresAt - REFRESH_BUFFER_MS
          /\ ~RefreshInFlight ) =>
            (posts' = posts + 1 /\ RefreshInFlight') ]_vars

\* C4: isRefreshing is true exactly while a refresh fetch is in flight; when
\* that fetch settles, with success or failure, the flag is false again.
C4_LockReleased ==
    isRefreshing <=> RefreshInFlight

\* C4 witness: a refresh fetch has just failed and the lock is free.
C4_Witness ==
    /\ lastCall.op = "getCurrentKey" /\ lastCall.fetch = "failed"
    /\ ~isRefreshing /\ ~RefreshInFlight

\* C5: among the callers of the vault, a failed session fetch rejects
\* exactly those on the initialize path: a HiveHyde.initialize whose fetch
\* failed rejects and leaves the system uninitialized with key and token
\* null, SessionVault.initialize rejects, and getCurrentKey never rejects.
C5_FailurePropagatesOnlyFromInitialize ==
    /\ (lastCall.op = "initialize" /\ lastCall.fetch = "failed") =>
           /\ lastCall.outcome = "rejected"
           /\ ~isInitialized /\ sessionKey = Null /\ sessionToken = Null
    /\ (lastCall.op = "vaultInitialize" /\ lastCall.fetch = "failed") =>
           lastCall.outcome = "rejected"
    /\ lastCall.op = "getCurrentKey" => lastCall.outcome # "rejected"

\* C5 witness: an initialize call was rejected because its fetch failed.
C5_Witness ==
    /\ lastCall.op = "initialize" /\ lastCall.fetch = "failed"
    /\ lastCall.outcome = "rejected"
    /\ currentPolicy # NullPolicy /\ ~isInitialized

\* C6: a non-null session key implies a non-null session token and a
\* positive expiresAt.
C6_KeyImpliesTokenAndExpiry ==
    sessionKey # Null => (sessionToken # Null /\ expiresAt > 0)

\* C6 witness: a silent refresh has just replaced the session.
C6_Witness ==
    /\ lastCall.op = "getCurrentKey" /\ lastCall.fetch = "accepted"
    /\ sessionKey # Null /\ sessionToken # Null

\* C7: a request the adapter lets through is either unprotected, handed
\* back unchanged with the engine not invoked, or protected and carrying all
\* six X-Hive-* headers, each the field of the one signature package the
\* engine returned for it; a protected request whose signing failed (the
\* engine threw or returned an error package) is rejected, with no X-Hive-*
\* header set, and is never let through.
C7_LetThroughOrRejected ==
    /\ LetThrough =>
          \/ /\ ~lastCall.value.protect
             /\ lastCall.value \in RequestConfigs
             /\ ~lastCall.engine
          \/ /\ lastCall.value.protect
             /\ lastCall.engine
             /\ lastCall.error = ""
             /\ lastCall.package # NoPackage
             /\ SignedWith(lastCall.value, lastCall.package)
    /\ (lastCall.op = "request" /\ lastCall.outcome # "suspended"
        /\ (lastCall.error # "" \/ (lastCall.engine /\ lastCall.package = NoPackage))) =>
          /\ Rejected
          /\ lastCall.value.protect
          /\ HiveHeaders(lastCall.value) = {}

\* C7 witness: a protected request was let through with the headers of a
\* package signed with a refreshed key, after an earlier one was rejected.
C7_Witness ==
    /\ LetThrough /\ lastCall.value.protect
    /\ SignedWith(lastCall.value, lastCall.package)
    /\ lastCall.fetch = "accepted"
    /\ lastCall.package.token = sessionToken

\* C8: processRequest called while the system is not initialized rejects
\* with the not-initialized error, invokes no probe, leaves the mouse buffer
\* as it is and issues no fetch.
C8_NotInitializedDoesNothing ==
    [][ (lastCall'.op = "processRequest" /\ NoCallResumed /\ ~isInitialized) =>
            /\ lastCall'.outcome = "rejected"
            /\ lastCall'.error = "not_initialized"
            /\ lastCall'.probes = << >>
            /\ mouseTrajectory' = mouseTrajectory
            /\ posts' = posts
            /\ pending' = pending ]_vars

\* C8 witness: processRequest was refused with mouse samples in the buffer,
\* after the last initialize had failed.
C8_Witness ==
    /\ lastCall.op = "processRequest" /\ lastCall.error = "not_initialized"
    /\ ~isInitialized
    /\ mouseTrajectory # << >>

\* C9: a step in which a protected request is rejected leaves the
\* initialized flag, the policy, the session and the interceptor attachment
\* as they were, and a protected request with a well-formed URL that ends
\* while a session key is available is let through signed.
C9_SigningFailureDoesNotPoison ==
    /\ [][ (lastCall'.op = "request" /\ lastCall'.outcome = "rejected") =>
               UNCHANGED << isInitialized, currentPolicy, sessionKey, sessionToken,
                            expiresAt, sentinelVars >> ]_vars
    /\ [][ ( /\ lastCall'.op = "request"
             /\ lastCall'.outcome \in { "resolved", "rejected" }
             /\ lastCall'.value.protect
             /\ ~RealUrlPath(lastCall'.value.baseURL, lastCall'.value.url).threw
             /\ sessionKey # Null /\ sessionKey' # Null ) =>
               (lastCall'.outcome = "resolved"
                /\ HiveHeaders(lastCall'.value) = HeaderNames) ]_vars

\* C10: at most one request interceptor is registered in total, and an
\* attachTo call made after a successful one changes no state.
C10_AttachOnce ==
    /\ [](interceptors["axios"] + interceptors["created"] <= 1)
    /\ [][ (lastCall'.op = "attachTo" /\ isInterceptorAttached) =>
               UNCHANGED << env, now, coreVars, vaultVars, mouseVars, sentinelVars,
                            pending, posts >> ]_vars

\* C10 witness: attachTo was called with another valid instance after the
\* interceptor had been attached.
C10_Witness ==
    /\ lastCall.op = "attachTo" /\ lastCall.error = "already_attached"
    /\ lastCall.value # axiosInstance
    /\ interceptors[axiosInstance] = 1

\* The arguments and the result of the function called in the last step.
Args == lastCall.value.args
Result == lastCall.value.result
Delimiter == << "|", "|" >>

\* The keys and values of a flat JSON text whose values are strings.
JsonKeys(json) == [ i \in 1..((Len(json) - 1) \div 8) |-> json[8 * (i - 1) + 3] ]
JsonValues(json) == [ i \in 1..((Len(json) - 1) \div 8) |-> json[8 * (i - 1) + 7] ]

\* C11: for POST, PUT, PATCH and DELETE with non-empty params,
\* serializedParams is the compact JSON of the params with the keys in
\* sorted order, whatever the insertion order.
C11_BodyParamsCanonical ==
    ( /\ lastCall.op = "serializedParams"
      /\ ToUpperCase(Args.method) \in BodyMethods
      /\ Args.params \notin { NoParams, EmptyParams } ) =>
        Result = _canonicalJsonStringify(Args.params)

\* C12: the signed string is timestamp, nonce, upper-cased method, path,
\* serializedParams, riskScore and rawFingerprintJson in this order, joined
\* by "||"; timestamp, nonce and riskScore are the values of the returned
\* package; for GET with empty params the params component is empty.
C12_SigningString ==
    lastCall.op = "assessAndSign" =>
        LET serialized == SerializedParams(ToUpperCase(Args.method), Args.params)
        IN /\ Result.signature.data =
                ToDecimal(Result.timestamp) \o Delimiter
                \o Result.nonce \o Delimiter
                \o ToUpperCase(Args.method) \o Delimiter
                \o Args.realUrl \o Delimiter
                \o serialized \o Delimiter
                \o ToDecimal(Result.riskScore) \o Delimiter
                \o RawFingerprintJson(Args.collectedData)
           /\ Result.timestamp = Args.timestamp
           /\ Result.nonce = ToDecimal(Args.timestamp) \o << "-" >> \o Args.random
           /\ Result.riskScore = _calculateRiskScore(Args.collectedData, Args.weights)
           /\ (ToUpperCase(Args.method) = << "G", "E", "T" >>
               /\ Args.params \in { NoParams, EmptyParams }) => serialized = << >>

\* C12 witness: a lower-case get with empty params was signed, and the
\* signed string has the empty params component between two delimiters.
C12_Witness ==
    /\ lastCall.op = "assessAndSign"
    /\ Args.method = GET /\ Args.params = EmptyParams
    /\ Args.timestamp > 0
    /\ Result.signature.data =
         ToDecimal(Args.timestamp) \o Delimiter \o Result.nonce \o Delimiter
         \o << "G", "E", "T" >> \o Delimiter \o Args.realUrl \o Delimiter \o Delimiter
         \o ToDecimal(Result.riskScore) \o Delimiter \o RawFingerprintJson(Args.collectedData)

\* C13: for every combination of probe results, the raw fingerprint JSON
\* has exactly the keys platform, renderer and audio, in this order, and
\* platform and renderer are "N/A" when the probe gave no .platform or
\* .renderer value.
C13_FingerprintKeys ==
    lastCall.op = "rawFingerprintJson" =>
        LET data == Args.collectedData
            NoField(k) == ~Has(data, k) \/ IsStr(data[k])
        IN /\ JsonKeys(Result) = << "platform", "renderer", "audio" >>
           /\ NoField("platform") => JsonValues(Result)[1] = "N/A"
           /\ NoField("webgl") => JsonValues(Result)[2] = "N/A"

\* C14: the risk score is an integer from 0 to 100 for every collected
\* data and weight map.
C14_ScoreInRange ==
    lastCall.op = "_calculateRiskScore" => Result \in 0..100

\* C14 witness: the bonuses outweigh the penalties and the score is 0.
C14_Witness ==
    /\ lastCall.op = "_calculateRiskScore"
    /\ BehaviourScore(Args.collectedData, Args.weights) + ErrorPenalty(Args.collectedData) < 0
    /\ Result = 0

\* C15: the scorer counts the probe results that are one of the sentinels
\* the probes return, and adds 2 x count to the score iff count > 2.
C15_SentinelsCounted ==
    lastCall.op = "_calculateRiskScore" =>
        LET data == Args.collectedData
            count == Cardinality({ k \in DOMAIN data :
                                     IsStr(data[k]) /\ data[k].str \in Sentinels })
        IN Result = RoundClamp(BehaviourScore(data, Args.weights)
                               + (IF count > 2 THEN 20 * count ELSE 0))

\* C16: the policy of a capability snapshot: the six fixed collectors,
\* canvas, webgl, audio and performance under their conditions, and the
\* weights of exactly the weighted probes included.
C16_PolicyOfCapabilities ==
    lastCall.op = "_generateDynamicPolicy" =>
        LET c == Args.capabilities
            collectors == { Result.collectors[i] : i \in 1..Len(Result.collectors) }
            Expected ==
                [plugins |-> TRUE, mouse_trajectory |-> TRUE, anomaly_scan |-> TRUE,
                 platform |-> TRUE, screen |-> TRUE, language |-> TRUE,
                 canvas |-> c.hasCanvas, webgl |-> c.hasWebGL,
                 audio |-> (c.hasOfflineAudioContext /\ ~c.isIOS),
                 performance |-> c.hasPerformance]
            Weight == [plugins |-> 5, canvas |-> 15, webgl |-> 15, audio |-> 20,
                       performance |-> 5, mouse_trajectory |-> 25, anomaly_scan |-> 50]
        IN /\ collectors = { k \in DOMAIN Expected : Expected[k] }
           /\ Len(Result.collectors) = Cardinality(collectors)
           /\ DOMAIN Result.weights = { k \in DOMAIN Weight : Expected[k] }
           /\ \A k \in DOMAIN Result.weights : Result.weights[k] = Weight[k]

\* C16 witness: the policy of an iOS host that has an offline audio context
\* and no canvas.
C16_Witness ==
    /\ lastCall.op = "_generateDynamicPolicy"
    /\ Args.capabilities.hasOfflineAudioContext /\ Args.capabilities.isIOS
    /\ ~Args.capabilities.hasCanvas
    /\ DOMAIN Result.weights = { "plugins", "mouse_trajectory", "anomaly_scan" }

\* The probe k ran in the step that ended in the call.
Ran(k, call) == \E i \in 1..Len(call.probes) : call.probes[i] = k
TrajectoryProbeRan == lastCall.op = "gather" /\ Ran("mouse_trajectory", lastCall)
PointsReturned == lastCall.value.mouse_trajectory.points

\* C17: after any sequence of mousemove events, clicks and runs of the
\* trajectory probe, the buffer holds at most 50 samples, and a sample is
\* accepted no sooner than 100 ms after the sample accepted before it,
\* inside the buffer and across the runs of the probe that empty it.
C17_BufferBounded ==
    /\ [](/\ Len(mouseTrajectory) <= 50
          /\ \A i \in 1..(Len(mouseTrajectory) - 1) :
                mouseTrajectory[i + 1][3] - mouseTrajectory[i][3] >= 100)
    /\ [][ (Len(mouseTrajectory') > Len(mouseTrajectory)) =>
             /\ mouseTrajectory' = Append(mouseTrajectory, mouseTrajectory'[Len(mouseTrajectory')])
             /\ mouseTrajectory'[Len(mouseTrajectory')][3] = now
             /\ lastMousePosition.t > 0 => now - lastMousePosition.t >= 100 ]_vars

\* C17 witness: the buffer is full, the pointer then moved once more and
\* the sample was dropped.
C17_Witness ==
    /\ Len(mouseTrajectory) = 50
    /\ lastMousePosition.t > mouseTrajectory[50][3]

\* C19: a run of the trajectory probe returns the samples of the buffer and
\* empties it in the same step; every other step only appends to the
\* buffer; a run that follows a run with no sample accepted in between
\* returns zero points.
C19_DrainedOnce ==
    [][ IF TrajectoryProbeRan' /\ lastCall' # lastCall
        THEN /\ PointsReturned' = mouseTrajectory
             /\ mouseTrajectory' = << >>
             /\ TrajectoryProbeRan => PointsReturned' = << >>
        ELSE /\ Len(mouseTrajectory') >= Len(mouseTrajectory)
             /\ SubSeq(mouseTrajectory', 1, Len(mouseTrajectory)) = mouseTrajectory ]_vars

\* C19 witness: a run of the probe returned zero points although the
\* handler accepted a sample at this instant: an earlier run has taken it.
C19_Witness ==
    /\ TrajectoryProbeRan
    /\ PointsReturned = << >>
    /\ lastMousePosition.t = now /\ now > 0
    /\ mouseTrajectory = << >>

\* The configs without a non-empty string apiBaseUrl: none, and a blank one.
InvalidConfigs == { Undefined, " " }
InitializeLeavesAll ==
    /\ posts' = posts
    /\ pending' = pending
    /\ UNCHANGED << isInitialized, currentPolicy, config, hiveConfig,
                    sessionKey, sessionToken, expiresAt >>

\* C18: HiveHyde.initialize called in any state with a config that lacks a
\* non-empty string apiBaseUrl fails with an error, issues no fetch, and
\* leaves the initialized flag, the policy, the config and the session
\* unchanged.
C18_InvalidConfigFails ==
    [][ \A u \in InvalidConfigs : Initialize(u) =>
          /\ lastCall'.op = "initialize"
          /\ lastCall'.outcome = "rejected"
          /\ lastCall'.error = "config_missing"
          /\ InitializeLeavesAll ]_vars

\* C18 amended: HiveHyde.initialize called with such a config before the
\* system is initialized fails with an error; called once the system is
\* initialized it returns true; in both cases it issues no fetch and leaves
\* the initialized flag, the policy, the config and the session unchanged.
C18_InvalidConfigFailsUntilInitialized ==
    [][ \A u \in InvalidConfigs : Initialize(u) =>
          /\ lastCall'.op = "initialize"
          /\ IF isInitialized
             THEN lastCall'.outcome = "resolved" /\ lastCall'.value = "true"
             ELSE lastCall'.outcome = "rejected" /\ lastCall'.error = "config_missing"
          /\ InitializeLeavesAll ]_vars

\* C18 witness: initialize was refused for its config while the fetch of
\* another initialize call is in flight.
C18_Witness ==
    /\ lastCall.op = "initialize"
    /\ lastCall.error = "config_missing"
    /\ ~isInitialized
    /\ \E c \in Suspended : c.kind = "initialize"

\* C20: however initialize calls follow or overlap one another, the mouse
\* listeners are registered at most once, and a click event increments
\* clickCount by exactly one.
C20_ListenersOnce ==
    /\ [](listeners <= 1)
    /\ [][ lastMousePosition'.c # lastMousePosition.c =>
             lastMousePosition'.c = lastMousePosition.c + 1 ]_vars

\* The names of the policy's collectors, and those the fabric implements.
PolicyCollectors ==
    { currentPolicy.collectors[i] : i \in 1..Len(currentPolicy.collectors) }
Implemented ==
    { "canvas", "webgl", "audio", "platform", "screen", "performance",
      "mouse_trajectory", "anomaly_scan" }
\* A probe of the policy ends only with an event from outside the page.
PolicyAwaitsEvent ==
    \/ "audio" \in PolicyCollectors
    \/ "anomaly_scan" \in PolicyCollectors /\ env.hasPermissionsApi
PackageEmitted == lastCall.package # NoPackage
SignedFingerprint == lastCall.package.fingerprintJsonForSign.plaintext

\* C21: in a signing attempt the probes invoked are exactly the policy's
\* collectors the fabric implements, each once; the key is asked for (and a
\* refresh started) and the package composed only once every probe has
\* resolved: never in the step that invoked a probe still waiting for its
\* event, and the signed fingerprint holds the audio probe's result.
C21_ProbesThenSign ==
    [][ (lastCall' # lastCall /\ lastCall'.engine) =>
          /\ lastCall'.probes # << >> =>
                /\ { lastCall'.probes[i] : i \in 1..Len(lastCall'.probes) }
                      = PolicyCollectors \cap Implemented
                /\ Len(lastCall'.probes) = Cardinality(PolicyCollectors \cap Implemented)
          /\ (PackageEmitted' \/ posts' # posts) =>
                (PolicyAwaitsEvent => lastCall'.probes = << >>)
          /\ (PackageEmitted' /\ "audio" \in PolicyCollectors) =>
                \E i \in 1..Len(JsonKeys(SignedFingerprint')) :
                    /\ JsonKeys(SignedFingerprint')[i] = "audio"
                    /\ JsonValues(SignedFingerprint')[i] \in env.audio ]_vars

\* C21 witness: a package was emitted on the desktop, whose audio probe and
\* permissions query had to end first, in a step that invoked no probe.
C21_Witness ==
    /\ PackageEmitted
    /\ PolicyAwaitsEvent
    /\ lastCall.probes = << >>
    /\ JsonValues(SignedFingerprint)[3] = "124.04"

\* The text up to its query or fragment, and with one leading slash.
BeforeQuery(url) == SubSeq(url, 1, IndexOfAny(url, { "?", "#" }, 1) - 1)
Slashed(url) == IF url # << >> /\ url[1] = "/" THEN url ELSE << "/" >> \o url
\* The path of a base URL of BaseUrls: what follows the host, without a
\* trailing slash.
BasePathOf(baseURL) ==
    IF baseURL = << >> THEN << >>
    ELSE LET rest == SubSeq(baseURL, Len(Host) + 1, Len(baseURL))
         IN IF rest # << >> /\ rest[Len(rest)] = "/"
            THEN SubSeq(rest, 1, Len(rest) - 1) ELSE rest

\* C22: for every base URL (absent, or absolute with or without a path and
\* a trailing slash) and request URL (with or without a leading slash, a
\* query or a fragment), the path passed to the engine is the base path
\* joined to the request path with single slashes, without scheme, host,
\* query or fragment.
C22_PathOnly ==
    lastCall.op = "realUrlPath" =>
        /\ ~Result.threw
        /\ Result.path = BasePathOf(Args.baseURL) \o Slashed(BeforeQuery(Args.url))
        /\ \A i \in 1..Len(Result.path) : Result.path[i] \notin { "?", "#", ":" }
        /\ \A i \in 1..(Len(Result.path) - 1) :
              ~(Result.path[i] = "/" /\ Result.path[i + 1] = "/")

\* The sessions the server issues: a key and the token of the same response.
Issued == { [key |-> "k1", token |-> "t1"], [key |-> "k2", token |-> "t2"] }

\* C23: in every signature package emitted, however signing attempts
\* interleave with the completions of refresh and initialize fetches, the
\* token is not null and was issued in the same response as the session key
\* of the package's HMAC and of its AES envelope.
C23_TokenOfTheKey ==
    PackageEmitted =>
        /\ lastCall.package.token \notin { Null, Undefined }
        /\ \E s \in Issued :
              /\ lastCall.package.signature.key = s.key
              /\ lastCall.package.fingerprintJsonForSign.key = s.key
              /\ lastCall.package.token = s.token

\* C23 witness: a package signed with the key of a second session, composed
\* in the step in which the refresh fetch of its attempt was accepted.
C23_Witness ==
    /\ PackageEmitted
    /\ lastCall.fetch = "accepted"
    /\ lastCall.package.signature.key = "k2"
    /\ lastCall.package.token = "t2"
====
